---- MODULE Spec2Model ----
(***************************************************************************)
(* Model of avwx/speech.py: the spoken rendering of a decoded METAR.       *)
(*                                                                         *)
(* Python strings are TLA+ strings; a Python list of strings is a tuple    *)
(* of strings.  Python's None and '' are both the falsy "no value" of a    *)
(* field and are both written "".  The only mutable object speech.py       *)
(* writes to is the list of variable wind directions: it lives in `heap`,  *)
(* and a list argument is the name of a heap cell.                         *)
(***************************************************************************)
EXTENDS Integers, Sequences, FiniteSets, TLC

VARIABLES
    op,      \* the function of speech.py called last ("none" before any call)
    num,     \* the token given to remove_leading_zeros
    wxdata,  \* the caller's MetarData (its wind_variable_direction is heap.caller)
    units,   \* the caller's Units
    heap,    \* list objects: "caller" is the caller's list, "copy" metar's deep copy
    out,     \* the string the last call returned
    speech,  \* metar's local list `speech` as it stood before the final join
    sent     \* the arguments the last wind() call handed to translate.wind

vars == <<op, num, wxdata, units, heap, out, speech, sent>>

(***************************************************************************)
(* Bounds of the model.                                                    *)
(***************************************************************************)
MaxLen == 3   \* longest string given to remove_leading_zeros
MaxWx  == 3   \* longest list of weather codes given to other()

(***************************************************************************)
(* Python's str and list primitives, as speech.py uses them.               *)
(***************************************************************************)
Char(s, i) == SubSeq(s, i, i)

startswith(s, p) == Len(s) >= Len(p) /\ SubSeq(s, 1, Len(p)) = p

\* `p in s` for strings
contains(s, p) == \E i \in 1..(Len(s) - Len(p) + 1) : SubSeq(s, i, i + Len(p) - 1) = p

\* s.find(p): the 0-based index of the first occurrence, -1 when there is none
find(s, p) ==
    IF contains(s, p)
    THEN (CHOOSE i \in 1..(Len(s) - Len(p) + 1) :
             /\ SubSeq(s, i, i + Len(p) - 1) = p
             /\ \A j \in 1..(i - 1) : SubSeq(s, j, j + Len(p) - 1) # p) - 1
    ELSE -1

\* s[:k] for an int k, negative k counting from the end
slice_to(s, k) ==
    IF k >= 0 THEN SubSeq(s, 1, IF k > Len(s) THEN Len(s) ELSE k)
    ELSE SubSeq(s, 1, Len(s) + k)

\* s[k:] for k >= 0
slice_from(s, k) == SubSeq(s, k + 1, Len(s))

\* s.lstrip(chars): drops every leading character that occurs in `chars`
RECURSIVE lstrip(_, _)
lstrip(s, chars) ==
    IF s # "" /\ contains(chars, Char(s, 1)) THEN lstrip(Tail(s), chars) ELSE s

RECURSIVE rstrip(_, _)
rstrip(s, chars) ==
    IF s # "" /\ contains(chars, Char(s, Len(s)))
    THEN rstrip(SubSeq(s, 1, Len(s) - 1), chars) ELSE s

\* s.strip()
strip(s) == rstrip(lstrip(s, " "), " ")

\* s.replace(old, new); speech.py never inserts with an empty `old`
RECURSIVE replace(_, _, _)
replace(s, old, new) ==
    IF old = "" \/ ~contains(s, old) THEN s
    ELSE LET i == find(s, old)
         IN  SubSeq(s, 1, i) \o new \o replace(SubSeq(s, i + Len(old) + 1, Len(s)), old, new)

\* s.split(sep) for a one-character sep
RECURSIVE split(_, _)
split(s, sep) ==
    IF ~contains(s, sep) THEN <<s>>
    ELSE LET i == find(s, sep)
         IN  <<SubSeq(s, 1, i)>> \o split(SubSeq(s, i + 2, Len(s)), sep)

\* sep.join(parts)
RECURSIVE join(_, _)
join(sep, parts) ==
    IF parts = <<>> THEN ""
    ELSE IF Len(parts) = 1 THEN parts[1]
    ELSE parts[1] \o sep \o join(sep, Tail(parts))

LowerOf ==
    ("K" :> "k") @@ ("M" :> "m") @@ ("S" :> "s") @@ ("G" :> "g") @@ ("L" :> "l")

\* s.lower()
RECURSIVE lower(_)
lower(s) ==
    IF s = "" THEN ""
    ELSE (IF Char(s, 1) \in DOMAIN LowerOf THEN LowerOf[Char(s, 1)] ELSE Char(s, 1))
         \o lower(Tail(s))

\* [l for l in parts if l]
RECURSIVE nonempty(_)
nonempty(parts) ==
    IF parts = <<>> THEN <<>>
    ELSE (IF parts[1] # "" THEN <<parts[1]>> ELSE <<>>) \o nonempty(Tail(parts))

(***************************************************************************)
(* avwx.static: the lookup tables (not part of speech.py).                 *)
(***************************************************************************)
NUMBER_REPL ==
    ("." :> "point") @@ ("-" :> "minus") @@ ("M" :> "minus") @@
    ("0" :> "zero") @@ ("1" :> "one") @@ ("2" :> "two") @@ ("3" :> "three") @@
    ("4" :> "four") @@ ("5" :> "five") @@ ("6" :> "six") @@ ("7" :> "seven") @@
    ("8" :> "eight") @@ ("9" :> "nine")

FRACTIONS ==
    ("1/4" :> "one quarter of a") @@ ("1/2" :> "one half") @@
    ("3/4" :> "three quarters of a")

SPOKEN_UNITS ==
    ("sm" :> "mile") @@ ("km" :> "kilometer") @@ ("m" :> "meter") @@
    ("kt" :> "knot") @@ ("C" :> "Celsius") @@ ("F" :> "Fahrenheit")

(***************************************************************************)
(* numbers and remove_leading_zeros.                                       *)
(***************************************************************************)
\* [NUMBER_REPL[char] for char in num if char in NUMBER_REPL]
RECURSIVE spell_chars(_)
spell_chars(s) ==
    IF s = "" THEN <<>>
    ELSE (IF Char(s, 1) \in DOMAIN NUMBER_REPL
          THEN <<NUMBER_REPL[Char(s, 1)]>> ELSE <<>>) \o spell_chars(Tail(s))

numbers(n) ==
    IF n \in DOMAIN FRACTIONS THEN FRACTIONS[n]
    ELSE join(" ", spell_chars(n))

\* a slip that forgets the collapse to "0"
remove_leading_zeros_nocollapse(n) ==
    IF n = "" THEN n
    ELSE IF startswith(n, "M") THEN "M" \o lstrip(slice_from(n, 1), "0")
    ELSE IF startswith(n, "-") THEN "-" \o lstrip(slice_from(n, 1), "0")
    ELSE lstrip(n, "0")

remove_leading_zeros(n) ==
    IF n = "" THEN n
    ELSE LET ret == IF startswith(n, "M") THEN "M" \o lstrip(slice_from(n, 1), "0")
                    ELSE IF startswith(n, "-") THEN "-" \o lstrip(slice_from(n, 1), "0")
                    ELSE lstrip(n, "0")
         IN  IF ret \in {"", "M", "-"} THEN "0" ELSE ret

(***************************************************************************)
(* The collaborators speech.py imports (avwx.core, avwx.translate).  Their *)
(* code is not part of speech.py: each is a table or a rule that honours   *)
(* the collaborator's contract (a phrase, "" when nothing can be said).    *)
(***************************************************************************)
\* core.is_unknown: the token of a value that was not reported
RECURSIVE is_unknown(_)
is_unknown(val) ==
    IF val = "" THEN TRUE
    ELSE Char(val, 1) = "/" /\ is_unknown(Tail(val))

DigitValue ==
    ("0" :> 0) @@ ("1" :> 1) @@ ("2" :> 2) @@ ("3" :> 3) @@ ("4" :> 4) @@
    ("5" :> 5) @@ ("6" :> 6) @@ ("7" :> 7) @@ ("8" :> 8) @@ ("9" :> 9)

DigitOf == [v \in 0..9 |-> CHOOSE c \in DOMAIN DigitValue : DigitValue[c] = v]

\* core.unpack_fraction: "5/2" -> "2 1/2"; anything but a top-heavy a/b is returned as is
unpack_fraction(n) ==
    IF /\ Len(n) = 3 /\ Char(n, 2) = "/"
       /\ Char(n, 1) \in DOMAIN DigitValue /\ Char(n, 3) \in DOMAIN DigitValue
       /\ DigitValue[Char(n, 3)] > 0
       /\ DigitValue[Char(n, 1)] > DigitValue[Char(n, 3)]
    THEN LET a == DigitValue[Char(n, 1)]
             b == DigitValue[Char(n, 3)]
         IN  DigitOf[a \div b] \o " " \o DigitOf[a % b] \o "/" \o Char(n, 3)
    ELSE n

\* translate.wind with cardinals=False; wvar is the list's content
translate_wind(wdir, wspd, wgst, wvar, unit) ==
    (IF wdir = "000" THEN "Calm" ELSE IF wdir = "VRB" THEN "Variable" ELSE wdir)
    \o (IF Len(wvar) >= 2
        THEN " (variable " \o wvar[1] \o " to " \o wvar[2] \o ")" ELSE "")
    \o (IF wspd \notin {"", "0", "00"} THEN " at " \o wspd \o unit ELSE "")
    \o (IF wgst # "" THEN " gusting to " \o wgst \o unit ELSE "")

VisibilityTable ==
    (<<"3", "sm">> :> "3sm (4.8km)") @@ (<<"10", "sm">> :> "10sm (16.1km)") @@
    (<<"1", "sm">> :> "1sm (1.6km)") @@ (<<"2000", "m">> :> "2km (1.2sm)") @@
    (<<"0900", "m">> :> "0.9km (0.6sm)") @@ (<<"9999", "m">> :> "10km (6.2sm)") @@
    (<<"1000", "m">> :> "1km (0.6sm)")

\* translate.visibility: the value with its unit and the other unit in brackets
translate_visibility(vis, unit) ==
    IF <<vis, unit>> \in DOMAIN VisibilityTable THEN VisibilityTable[<<vis, unit>>]
    ELSE ""

WxTable ==
    ("RA" :> "Rain") @@ ("+RA" :> "Heavy Rain") @@ ("VCSH" :> "Vicinity Showers") @@
    ("VCVA" :> "Vicinity Volcanic Ash") @@ ("VCTS" :> "Vicinity Thunderstorm")

\* translate.wxcode: the phrase of a weather code, "" when it has none
translate_wxcode(code) ==
    IF code \in DOMAIN WxTable THEN WxTable[code] ELSE ""

CloudTable ==
    ("FEW020" :> "Few clouds at 2000") @@ ("BKN050" :> "Broken layer at 5000") @@
    ("OVC100" :> "Overcast layer at 10000")

\* the absent cloud list (Python's None)
NoLayers == <<"None">>

\* translate.clouds: the layers joined with ", " and marked as heights above ground
translate_clouds(clds, unit) ==
    IF clds = NoLayers THEN ""
    ELSE IF clds = <<>> THEN "Sky clear"
    ELSE join(", ", [i \in DOMAIN clds |-> CloudTable[clds[i]] \o unit])
         \o " - Reported AGL"

(***************************************************************************)
(* The formatters of speech.py.                                            *)
(***************************************************************************)
\* wind(wdir, wspd, wgst, wvar, unit): wvar names the list object given, h is
\* the heap; the loop of lines 48-49 writes into that object (`wvar or []` is
\* the object itself unless it is empty, and then the loop writes nothing)
wind(wdir, wspd, wgst, wvar, unit, h) ==
    LET unit1 == IF unit \in DOMAIN SPOKEN_UNITS THEN SPOKEN_UNITS[unit] ELSE unit
        wdir1 == IF wdir \notin {"000", "VRB"} THEN numbers(wdir) ELSE wdir
        h1    == [h EXCEPT ![wvar] = [i \in DOMAIN h[wvar] |-> numbers(h[wvar][i])]]
        wspd1 == remove_leading_zeros(wspd)
        wgst1 == remove_leading_zeros(wgst)
        val   == translate_wind(wdir1, wspd1, wgst1, h1[wvar], unit1)
    IN  [ret  |-> "Winds " \o (IF val # "" THEN val ELSE "unknown"),
         heap |-> h1,
         sent |-> [wdir |-> wdir1, wspd |-> wspd1, wgst |-> wgst1,
                   wvar |-> h1[wvar], unit |-> unit1, val |-> val]]

temperature(header, temp, unit) ==
    IF is_unknown(temp) THEN header \o " unknown"
    ELSE LET unit1 == IF unit \in DOMAIN SPOKEN_UNITS THEN SPOKEN_UNITS[unit] ELSE unit
             temp1 == numbers(remove_leading_zeros(temp))
             use_s == IF temp1 \in {"one", "minus one"} THEN "" ELSE "s"
         IN  join(" ", <<header, temp1, "degree" \o use_s, unit1>>)

\* a slip that leaves a plain metre value in metres
visibility_dispatch_keepunit(vis, unit) ==
    IF startswith(vis, "M")
    THEN [vis |-> "less than " \o numbers(remove_leading_zeros(slice_from(vis, 1))),
          unit |-> unit]
    ELSE IF startswith(vis, "P")
    THEN [vis |-> "greater than " \o numbers(remove_leading_zeros(slice_from(vis, 1))),
          unit |-> unit]
    ELSE IF contains(vis, "/")
    THEN LET parts == split(unpack_fraction(vis), " ")
         IN  [vis |-> join(" and ", [i \in DOMAIN parts |->
                                        numbers(remove_leading_zeros(parts[i]))]),
              unit |-> unit]
    ELSE LET v1 == translate_visibility(vis, unit)
             v2 == strip(replace(lower(slice_to(v1, find(v1, " ("))), unit, ""))
         IN  [vis |-> numbers(remove_leading_zeros(v2)), unit |-> unit]

\* lines 75-87 of visibility: the spoken value and the unit tag in effect after it
visibility_dispatch(vis, unit) ==
    IF startswith(vis, "M")
    THEN [vis |-> "less than " \o numbers(remove_leading_zeros(slice_from(vis, 1))),
          unit |-> unit]
    ELSE IF startswith(vis, "P")
    THEN [vis |-> "greater than " \o numbers(remove_leading_zeros(slice_from(vis, 1))),
          unit |-> unit]
    ELSE IF contains(vis, "/")
    THEN LET parts == split(unpack_fraction(vis), " ")
         IN  [vis |-> join(" and ", [i \in DOMAIN parts |->
                                        numbers(remove_leading_zeros(parts[i]))]),
              unit |-> unit]
    ELSE LET v1    == translate_visibility(vis, unit)
             unit1 == IF unit = "m" THEN "km" ELSE unit
             v2    == strip(replace(lower(slice_to(v1, find(v1, " ("))), unit1, ""))
         IN  [vis |-> numbers(remove_leading_zeros(v2)), unit |-> unit1]

\* a slip that tests for the whole phrase instead of a part of it
visibility_singular_exact(vis) ==
    (vis = "one half" /\ ~contains(vis, " and ")) \/ contains(vis, "of a")

\* line 91: the spoken value takes the unit in the singular
visibility_singular(vis) ==
    (contains(vis, "one half") /\ ~contains(vis, " and ")) \/ contains(vis, "of a")

visibility(vis, unit) ==
    IF is_unknown(vis) THEN "Visibility unknown"
    ELSE LET d   == visibility_dispatch(vis, unit)
             ret == "Visibility " \o d.vis
         IN  IF d.unit \in DOMAIN SPOKEN_UNITS
             THEN ret \o " " \o SPOKEN_UNITS[d.unit]
                      \o (IF ~visibility_singular(d.vis) THEN "s" ELSE "")
             ELSE ret \o d.unit

altimeter(alt, unit) ==
    IF is_unknown(alt) THEN "Altimeter " \o "unknown"
    ELSE IF unit = "inHg"
    THEN "Altimeter " \o numbers(slice_to(alt, 2)) \o " point " \o numbers(slice_from(alt, 2))
    ELSE IF unit = "hPa" THEN "Altimeter " \o numbers(alt)
    ELSE "Altimeter "

\* lines 119-120: the rewrite of one translated phrase
other_item(item) ==
    IF startswith(item, "Vicinity")
    THEN lstrip(item, "Vicinity ") \o " in the Vicinity"
    ELSE item

other(wxcodes) ==
    join(". ", [i \in DOMAIN wxcodes |-> other_item(translate_wxcode(wxcodes[i]))])

(***************************************************************************)
(* metar.                                                                  *)
(***************************************************************************)
\* a slip that hands the caller's own list on
deepcopy_alias(h, ref) == [ref |-> ref, heap |-> h]

\* deepcopy of the list object `ref`: a new object "copy" with the same content
deepcopy(h, ref) == [ref |-> "copy", heap |-> [h EXCEPT !["copy"] = h[ref]]]

\* a slip that asks for either of direction and speed
wind_guard_either(d) == d.wind_direction # "" \/ d.wind_speed # ""

\* line 133
wind_guard(d) == d.wind_direction # "" /\ d.wind_speed # ""

\* a slip that forgets the commas
finish_keep_commas(sp) == join(". ", nonempty(sp))

\* line 149
finish(sp) == replace(join(". ", nonempty(sp)), ",", ".")

metar(h, d, u) ==
    LET c  == deepcopy(h, "caller")
        w  == wind(d.wind_direction, d.wind_speed, d.wind_gust, c.ref,
                   u.wind_speed, c.heap)
        s1 == IF wind_guard(d) THEN <<w.ret>> ELSE <<>>
        s2 == IF d.visibility # "" THEN <<visibility(d.visibility, u.visibility)>> ELSE <<>>
        s3 == IF d.temperature # ""
              THEN <<temperature("Temperature", d.temperature, u.temperature)>> ELSE <<>>
        s4 == IF d.dewpoint # ""
              THEN <<temperature("Dew point", d.dewpoint, u.temperature)>> ELSE <<>>
        s5 == IF d.altimeter # "" THEN <<altimeter(d.altimeter, u.altimeter)>> ELSE <<>>
        s6 == IF d.other # <<>> THEN <<other(d.other)>> ELSE <<>>
        s7 == <<replace(translate_clouds(d.clouds, u.altitude), " - Reported AGL", "")>>
        sp == s1 \o s2 \o s3 \o s4 \o s5 \o s6 \o s7
    IN  [ret    |-> finish(sp),
         speech |-> sp,
         heap   |-> IF wind_guard(d) THEN w.heap ELSE c.heap,
         called |-> wind_guard(d),
         sent   |-> w.sent]

(***************************************************************************)
(* The inputs the calls are made on.                                       *)
(***************************************************************************)
\* every string of at most n characters of the alphabet
RECURSIVE StringsUpTo(_, _)
StringsUpTo(alphabet, n) ==
    IF n = 0 THEN {""}
    ELSE LET shorter == StringsUpTo(alphabet, n - 1)
         IN  shorter \cup {a \o t : a \in alphabet, t \in {x \in shorter : Len(x) = n - 1}}

\* the strings given to remove_leading_zeros: digits, the sign markers and the
\* decimal point, in any order
Tokens == StringsUpTo({"0", "4", "M", "-", "."}, MaxLen)

\* every list of at most n of the codes
RECURSIVE ListsUpTo(_, _)
ListsUpTo(codes, n) ==
    IF n = 0 THEN {<<>>}
    ELSE LET shorter == ListsUpTo(codes, n - 1)
         IN  shorter \cup {<<a>> \o t : a \in codes, t \in {x \in shorter : Len(x) = n - 1}}

WxCodes == {"RA", "+RA", "VCSH", "VCVA", ""}

VisCodes ==
    {"", "////", "M1/4", "M1/2", "M1", "P6", "1/4", "1/2", "3/4", "3/2", "7/4", "5/8",
     "1", "3", "10", "1000", "2000", "0900"}

VisUnits == {"sm", "m", "km", "ft"}

NoData ==
    [wind_direction |-> "", wind_speed |-> "", wind_gust |-> "", visibility |-> "",
     temperature |-> "", dewpoint |-> "", altimeter |-> "", other |-> <<>>,
     clouds |-> <<>>]

DefaultUnits ==
    [wind_speed |-> "kt", visibility |-> "sm", temperature |-> "C",
     altitude |-> "ft", altimeter |-> "inHg"]

NothingSent ==
    [wdir |-> "", wspd |-> "", wgst |-> "", wvar |-> <<>>, unit |-> "", val |-> ""]

NoCallYet ==
    /\ op = "none"
    /\ out = ""
    /\ speech = <<>>
    /\ sent = NothingSent

InitNumber ==
    /\ NoCallYet
    /\ num \in Tokens
    /\ wxdata = NoData
    /\ units = DefaultUnits
    /\ heap = [caller |-> <<>>, copy |-> <<>>]

InitWind ==
    /\ NoCallYet
    /\ num = ""
    /\ \E wdir \in {"", "000", "VRB", "090"}, wspd \in {"", "00", "05", "10"},
          wgst \in {"", "05", "20"} :
          wxdata = [NoData EXCEPT !.wind_direction = wdir, !.wind_speed = wspd,
                                  !.wind_gust = wgst]
    /\ \E u \in {"kt", "mps"} : units = [DefaultUnits EXCEPT !.wind_speed = u]
    /\ \E l \in {<<>>, <<"060", "120">>} : heap = [caller |-> l, copy |-> <<>>]

InitVisibility ==
    /\ NoCallYet
    /\ num = ""
    /\ \E v \in VisCodes : wxdata = [NoData EXCEPT !.visibility = v]
    /\ \E u \in VisUnits : units = [DefaultUnits EXCEPT !.visibility = u]
    /\ heap = [caller |-> <<>>, copy |-> <<>>]

InitOther ==
    /\ NoCallYet
    /\ num = ""
    /\ \E l \in ListsUpTo(WxCodes, MaxWx) : wxdata = [NoData EXCEPT !.other = l]
    /\ units = DefaultUnits
    /\ heap = [caller |-> <<>>, copy |-> <<>>]

InitMetar ==
    /\ NoCallYet
    /\ num = ""
    /\ \E wdir \in {"", "090"}, wspd \in {"", "05"}, wgst \in {"20"},
          vis \in {"", "3", "M1/4"}, temp \in {"", "M01", "////"},
          dew \in {"", "15"}, alt \in {"", "2992"},
          oth \in {<<>>, <<"RA">>, <<"VCSH", "+RA">>, <<"RA", "">>},
          cld \in {NoLayers, <<>>, <<"FEW020", "BKN050">>} :
          wxdata = [wind_direction |-> wdir, wind_speed |-> wspd, wind_gust |-> wgst,
                    visibility |-> vis, temperature |-> temp, dewpoint |-> dew,
                    altimeter |-> alt, other |-> oth, clouds |-> cld]
    /\ units = DefaultUnits
    /\ \E l \in {<<>>, <<"060", "120">>} : heap = [caller |-> l, copy |-> <<>>]

(***************************************************************************)
(* The calls.                                                              *)
(***************************************************************************)
RemoveLeadingZerosCall ==
    /\ op' = "remove_leading_zeros"
    /\ out' = remove_leading_zeros(num)
    /\ UNCHANGED <<num, wxdata, units, heap, speech, sent>>

\* wind() called by the owner of the data, on the owner's own list
WindCall ==
    LET r == wind(wxdata.wind_direction, wxdata.wind_speed, wxdata.wind_gust,
                  "caller", units.wind_speed, heap)
    IN  /\ op' = "wind"
        /\ out' = r.ret
        /\ heap' = r.heap
        /\ sent' = r.sent
        /\ UNCHANGED <<num, wxdata, units, speech>>

VisibilityCall ==
    /\ op' = "visibility"
    /\ out' = visibility(wxdata.visibility, units.visibility)
    /\ UNCHANGED <<num, wxdata, units, heap, speech, sent>>

OtherCall ==
    /\ op' = "other"
    /\ out' = other(wxdata.other)
    /\ UNCHANGED <<num, wxdata, units, heap, speech, sent>>

MetarCall ==
    LET r == metar(heap, wxdata, units)
    IN  /\ op' = "metar"
        /\ out' = r.ret
        /\ speech' = r.speech
        /\ heap' = r.heap
        /\ sent' = IF r.called THEN r.sent ELSE sent
        /\ UNCHANGED <<num, wxdata, units>>

SpecNumber == InitNumber /\ [][RemoveLeadingZerosCall]_vars

SpecWind == InitWind /\ [][WindCall]_vars

SpecVisibility == InitVisibility /\ [][VisibilityCall]_vars

SpecOther == InitOther /\ [][OtherCall]_vars

Init == InitMetar

Next == MetarCall

Spec == Init /\ [][Next]_vars

(***************************************************************************)
(* Vocabulary of the properties.                                           *)
(***************************************************************************)
endswith(s, p) == Len(s) >= Len(p) /\ SubSeq(s, Len(s) - Len(p) + 1, Len(s)) = p

HasDigit(s) == \E i \in 1..Len(s) : Char(s, i) \in DOMAIN DigitValue

SignOf(s) == IF s # "" /\ Char(s, 1) \in {"M", "-"} THEN Char(s, 1) ELSE ""

\* res is token with the leading zeros behind its leading sign marker taken
\* away, and "0" when that leaves a sign marker alone or nothing
IsZeroStripped(token, res) ==
    LET sign == SignOf(token)
        body == SubSeq(token, Len(sign) + 1, Len(token))
    IN  \E k \in 0..Len(body) :
            /\ \A i \in 1..k : Char(body, i) = "0"
            /\ k = Len(body) \/ Char(body, k + 1) # "0"
            /\ LET left == sign \o SubSeq(body, k + 1, Len(body))
               IN  res = IF left = "" \/ (Len(left) = 1 /\ SignOf(left) = left)
                         THEN "0" ELSE left

\* the visibility code takes the last dispatch rule (the Translation formatter)
PlainVisibility(vis) ==
    ~is_unknown(vis) /\ ~startswith(vis, "M") /\ ~startswith(vis, "P") /\ ~contains(vis, "/")

\* the unit tag in effect when the suffix is chosen
UnitInEffect(vis, unit) == IF PlainVisibility(vis) /\ unit = "m" THEN "km" ELSE unit

\* out ends with the unit `tag`: spoken, in the singular or the plural, or raw
EndsWithUnit(s, tag) ==
    IF tag \in DOMAIN SPOKEN_UNITS
    THEN endswith(s, " " \o SPOKEN_UNITS[tag]) \/ endswith(s, " " \o SPOKEN_UNITS[tag] \o "s")
    ELSE endswith(s, tag)

\* the spoken value between "Visibility " and the spoken unit `tag`
SpokenValue(s, tag) ==
    LET name   == SPOKEN_UNITS[tag]
        suffix == " " \o name \o (IF endswith(s, name \o "s") THEN "s" ELSE "")
    IN  SubSeq(s, Len("Visibility ") + 1, Len(s) - Len(suffix))

\* 1..5 for the segments of the five formatters that start with their own word,
\* 6 for any other segment
Rank(seg) ==
    IF startswith(seg, "Winds ") THEN 1
    ELSE IF startswith(seg, "Visibility ") THEN 2
    ELSE IF startswith(seg, "Temperature ") THEN 3
    ELSE IF startswith(seg, "Dew point ") THEN 4
    ELSE IF startswith(seg, "Altimeter ") THEN 5
    ELSE 6

HasRank(sp, r) == \E i \in 1..(Len(sp) - 1) : Rank(sp[i]) = r

C1_NoComma == op = "metar" => ~contains(out, ",")

C1_Witness ==
    /\ op = "metar"
    /\ \E i \in 1..Len(speech) : contains(speech[i], ",")
    /\ wxdata.wind_direction # "" /\ wxdata.wind_speed # ""

(***************************************************************************)
(* C3: metar puts its segments in the order wind, visibility, temperature, *)
(* dew point, altimeter, weather, clouds; the wind segment is there        *)
(* exactly when direction and speed are both present, each of the next     *)
(* four exactly when its value is present, the weather segment exactly     *)
(* when the list is not empty, and the clouds segment always, last.        *)
(***************************************************************************)
C3_OrderAndGuards ==
    op = "metar" =>
        LET n == Len(speech)
            present == {f \in {"visibility", "temperature", "dewpoint", "altimeter"} :
                            wxdata[f] # ""}
        IN  /\ n >= 1
            /\ speech[n] = replace(translate_clouds(wxdata.clouds, units.altitude),
                                   " - Reported AGL", "")
            /\ HasRank(speech, 1) <=> (wxdata.wind_direction # "" /\ wxdata.wind_speed # "")
            /\ HasRank(speech, 2) <=> wxdata.visibility # ""
            /\ HasRank(speech, 3) <=> wxdata.temperature # ""
            /\ HasRank(speech, 4) <=> wxdata.dewpoint # ""
            /\ HasRank(speech, 5) <=> wxdata.altimeter # ""
            /\ HasRank(speech, 6) <=> wxdata.other # <<>>
            /\ \A i, j \in 1..(n - 1) : i < j => Rank(speech[i]) < Rank(speech[j])

C3_Witness ==
    /\ op = "metar"
    /\ wxdata.wind_direction # "" /\ wxdata.wind_speed = ""
    /\ wxdata.altimeter # "" /\ wxdata.other # <<>> /\ wxdata.visibility = ""
    /\ Len(speech) = 3

(***************************************************************************)
(* C4: a call of metar leaves the caller's data and units as they were,    *)
(* the list of variable wind directions included, although wind rewrites   *)
(* the list it is given; a call that follows a call returns the same       *)
(* string.                                                                 *)
(***************************************************************************)
C4_CallerUntouched ==
    [][op' = "metar" =>
          /\ wxdata' = wxdata
          /\ units' = units
          /\ heap'.caller = heap.caller
          /\ op = "metar" => out' = out]_vars

C4_Witness ==
    /\ op = "metar"
    /\ heap.caller = <<"060", "120">>
    /\ heap.copy = <<"zero six zero", "one two zero">>
    /\ contains(out, "variable zero six zero to one two zero")

(***************************************************************************)
(* C2: making one field absent changes what metar returns only by taking   *)
(* out that field's segment and one ". " joiner: the other segments stay   *)
(* as they were, in their order, and the string has no ". ." in it, no     *)
(* separator at its start and none at its end.                             *)
(***************************************************************************)
Omitted(d, f) ==
    IF f = "other" THEN [d EXCEPT !.other = <<>>] ELSE [d EXCEPT ![f] = ""]

IsPresent(d, f) ==
    IF f = "other" THEN d.other # <<>>
    ELSE IF f = "wind_speed" THEN d.wind_direction # "" /\ d.wind_speed # ""
    ELSE d[f] # ""

\* the place of field f's segment in metar's list
SegmentIndex(d, f) ==
    LET before ==
            CASE f = "wind_speed"  -> {}
              [] f = "visibility"  -> {"wind_speed"}
              [] f = "temperature" -> {"wind_speed", "visibility"}
              [] f = "dewpoint"    -> {"wind_speed", "visibility", "temperature"}
              [] f = "altimeter"   -> {"wind_speed", "visibility", "temperature", "dewpoint"}
              [] f = "other"       -> {"wind_speed", "visibility", "temperature", "dewpoint",
                                       "altimeter"}
    IN  Cardinality({g \in before : IsPresent(d, g)}) + 1

WithoutIndex(sp, k) == SubSeq(sp, 1, k - 1) \o SubSeq(sp, k + 1, Len(sp))

\* shorter is whole with one occurrence of seg and one ". " next to it taken out
TakenOut(whole, seg, shorter) ==
    \/ seg = "" /\ shorter = whole
    \/ whole = seg /\ shorter = ""
    \/ \E i \in 0..Len(whole) :
          LET head == SubSeq(whole, 1, i)
              rest == SubSeq(whole, i + 1, Len(whole))
          IN  \/ /\ startswith(rest, seg \o ". ")
                 /\ shorter = head \o SubSeq(rest, Len(seg) + 3, Len(rest))
              \/ /\ rest = ". " \o seg
                 /\ shorter = head

NoSeparatorArtifact(s) ==
    ~contains(s, ". .") /\ ~startswith(s, ". ") /\ ~endswith(s, ". ")

C2_OmitField ==
    op = "metar" =>
        /\ NoSeparatorArtifact(out)
        /\ \A f \in {"wind_speed", "visibility", "temperature", "dewpoint", "altimeter",
                     "other"} :
              IsPresent(wxdata, f) =>
                  LET k == SegmentIndex(wxdata, f)
                      r == metar(heap, Omitted(wxdata, f), units)
                  IN  /\ r.speech = WithoutIndex(speech, k)
                      /\ TakenOut(out, replace(speech[k], ",", "."), r.ret)

(***************************************************************************)
(* C5: wind, called with a list of variable-direction codes, leaves every  *)
(* element of the caller's list as it was before the call.                 *)
(***************************************************************************)
C5_WindKeepsCallerList == [][op' = "wind" => heap'.caller = heap.caller]_vars

(***************************************************************************)
(* C6: other gives, for a phrase that begins with the word Vicinity, the   *)
(* rest of the phrase behind that word and the separator after it,         *)
(* followed by " in the Vicinity", whatever letter the rest begins with;   *)
(* the result never begins with Vicinity; the phrases are joined with      *)
(* ". " in the order of the codes and no codes give the empty string.      *)
(***************************************************************************)
WithoutLeadingWord(phrase, word) ==
    LET rest == SubSeq(phrase, Len(word) + 1, Len(phrase))
    IN  IF startswith(rest, " ") THEN Tail(rest) ELSE rest

VicinityLast(phrase) ==
    IF startswith(phrase, "Vicinity")
    THEN WithoutLeadingWord(phrase, "Vicinity") \o " in the Vicinity"
    ELSE phrase

C6_VicinityMoved ==
    op = "other" =>
        /\ out = join(". ", [i \in DOMAIN wxdata.other |->
                                VicinityLast(translate_wxcode(wxdata.other[i]))])
        /\ ~startswith(out, "Vicinity")
        /\ wxdata.other = <<>> => out = ""

(***************************************************************************)
(* C7 as stated: the spoken unit of visibility gets an "s" unless the      *)
(* spoken value is exactly "one half" or contains "of a"; so "less than    *)
(* one half" (code M1/2) gets the "s".  A unit tag with no spoken form is  *)
(* appended as it is.                                                      *)
(***************************************************************************)
C7_PluralUnlessExactlyOneHalf ==
    (op = "visibility" /\ ~is_unknown(wxdata.visibility)) =>
        LET tag == UnitInEffect(wxdata.visibility, units.visibility)
        IN  /\ startswith(out, "Visibility ")
            /\ EndsWithUnit(out, tag)
            /\ tag \in DOMAIN SPOKEN_UNITS =>
                  LET value == SpokenValue(out, tag)
                  IN  /\ endswith(out, "s") <=>
                            ~((value = "one half" /\ ~contains(value, " and "))
                              \/ contains(value, "of a"))
                      /\ wxdata.visibility = "M1/2" => endswith(out, "s")

(***************************************************************************)
(* C7 as amended: the spoken unit of visibility gets an "s" unless the     *)
(* spoken value contains "one half" and no " and ", or contains "of a";    *)
(* so "less than one half" (code M1/2) gets no "s".  A unit tag with no    *)
(* spoken form is appended as it is.                                       *)
(***************************************************************************)
C7_PluralUnlessContainsOneHalf ==
    (op = "visibility" /\ ~is_unknown(wxdata.visibility)) =>
        LET tag == UnitInEffect(wxdata.visibility, units.visibility)
        IN  /\ startswith(out, "Visibility ")
            /\ EndsWithUnit(out, tag)
            /\ tag \in DOMAIN SPOKEN_UNITS =>
                  LET value == SpokenValue(out, tag)
                  IN  /\ endswith(out, "s") <=>
                            ~((contains(value, "one half") /\ ~contains(value, " and "))
                              \/ contains(value, "of a"))
                      /\ wxdata.visibility = "M1/2" => ~endswith(out, "s")
            /\ tag \notin DOMAIN SPOKEN_UNITS => ~endswith(out, tag \o "s")

C7_Witness ==
    /\ op = "visibility"
    /\ wxdata.visibility = "M1/2"
    /\ units.visibility = "sm"
    /\ out = "Visibility less than one half mile"

(***************************************************************************)
(* C9: wind zero-strips the speed and the gust and spells them,  *)
(* so what it hands to translate.wind for them has no digit; a direction   *)
(* other than 000 and VRB is spelled, 000 and VRB are handed on as they    *)
(* are; wind("000", "05", "", [], "kt") has no digit in it; the result     *)
(* begins with "Winds " and is "Winds unknown" when translate.wind         *)
(* returns "".                                                             *)
(***************************************************************************)
CalmExample ==
    /\ wxdata.wind_direction = "000" /\ wxdata.wind_speed = "05"
    /\ wxdata.wind_gust = "" /\ heap.caller = <<>> /\ units.wind_speed = "kt"

C9_SpeedSpelled ==
    op = "wind" =>
        /\ ~HasDigit(sent.wspd) /\ ~HasDigit(sent.wgst)
        /\ IF wxdata.wind_direction \in {"000", "VRB"}
           THEN sent.wdir = wxdata.wind_direction
           ELSE ~HasDigit(sent.wdir)
        /\ CalmExample => ~HasDigit(out)
        /\ startswith(out, "Winds ")
        /\ sent.val = "" => out = "Winds unknown"

(***************************************************************************)
(* C10 as stated: visibility tries its rules in the order unknown, leading *)
(* M, leading P, contains "/", otherwise the Translation formatter; under  *)
(* every rule but the first the unit at the end is the one of the tag the  *)
(* caller passed, whichever rule was taken.                                *)
(***************************************************************************)
DispatchOrder ==
    /\ is_unknown(wxdata.visibility) => out = "Visibility unknown"
    /\ (~is_unknown(wxdata.visibility) /\ startswith(wxdata.visibility, "M"))
           => startswith(out, "Visibility less than ")
    /\ (~is_unknown(wxdata.visibility) /\ startswith(wxdata.visibility, "P"))
           => startswith(out, "Visibility greater than ")
    /\ (~is_unknown(wxdata.visibility) /\ ~startswith(wxdata.visibility, "M")
        /\ ~startswith(wxdata.visibility, "P"))
           => /\ startswith(out, "Visibility ")
              /\ ~startswith(out, "Visibility less than ")
              /\ ~startswith(out, "Visibility greater than ")

C10_UnitOfTheTag ==
    op = "visibility" =>
        /\ DispatchOrder
        /\ ~is_unknown(wxdata.visibility) => EndsWithUnit(out, units.visibility)

(***************************************************************************)
(* C10 as amended: visibility tries its rules in the order unknown,        *)
(* leading M, leading P, contains "/", otherwise the Translation           *)
(* formatter; under the rules for M, P and "/" the unit at the end is the  *)
(* one of the tag the caller passed; under the last rule it is that unit   *)
(* too, except that the tag "m" ends in the spoken form of "km".           *)
(***************************************************************************)
C10_UnitOfTheTagButKilometers ==
    op = "visibility" =>
        /\ DispatchOrder
        /\ ~is_unknown(wxdata.visibility) =>
              /\ EndsWithUnit(out, UnitInEffect(wxdata.visibility, units.visibility))
              /\ (PlainVisibility(wxdata.visibility) /\ units.visibility = "m")
                     => ~EndsWithUnit(out, "m")

C10_Witness ==
    /\ op = "visibility"
    /\ wxdata.visibility = "2000"
    /\ units.visibility = "m"
    /\ out = "Visibility two kilometers"

====
